---- MODULE Spec2Model ----
(***************************************************************************)
(* State-machine model of the LGMP client connection of lookinggla-rs      *)
(* (src/src/client/lgmp_comm.rs): LGMPConnection (open, init, tick_frame,  *)
(* tick_cursor, get_frame_update, get_cursor_update), LGMPSession          *)
(* (pop_ref, fast_forward) and the update handles.                         *)
(*                                                                         *)
(* Time is an integer clock (Instant::now() is monotonic); durations are   *)
(* integers in the same unit.  The queue primitive of the ligmars crate is *)
(* an environment: it answers a message, "queue empty" or another failure. *)
(***************************************************************************)
EXTENDS Integers, Sequences, FiniteSets, TLC

(***************************************************************************)
(* Bounds of the model.                                                    *)
(***************************************************************************)
\* The clock runs from 0 to MaxTime.
MaxTime == 2
\* opts.timeout is drawn from 0..MaxTimeout.
MaxTimeout == 1
\* tick_period arguments are drawn from 0..MaxPeriod.
MaxPeriod == 1
\* Time that may pass between two clock reads inside one tick call.
MaxDelay == 1
\* Messages the host enqueues over a run, counted over both channels.
MaxMsgs == 2

(***************************************************************************)
(* Constants of the program.                                               *)
(***************************************************************************)
\* enum KVMFRChans { Frame, Cursor }
KVMFRChans == {"Frame", "Cursor"}

\* shm_datastructs::KVMFR_VERSION (generated bindings; the value stands for
\* whatever the bound header defines).
KVMFR_VERSION == 20

\* size_of::<shm_datastructs::KVMFR>() (generated bindings).
KVMFR_SIZE == 48

\* shm_datastructs::KVMFR_MAGIC[0..udata.magic.len()]
KVMFR_MAGIC == "KVMFR---"

\* size_of::<shm_datastructs::KVMFRFrame>() and
\* size_of::<shm_datastructs::KVMFRCursor>() (generated bindings; the values
\* stand for whatever the bound header defines).
KVMFRFrame_SIZE == 24

KVMFRCursor_SIZE == 16

StructSize(channel) ==
    IF channel = "Frame" THEN KVMFRFrame_SIZE ELSE KVMFRCursor_SIZE

\* Byte lengths (InPlaceMessage.mem.size) the host may give a message of a
\* channel: around the size of the channel's structure.
MsgSizes(channel) ==
    {StructSize(channel) - 1, StructSize(channel), StructSize(channel) + 1}

\* Registration metadata the host may supply: the byte length of udata_raw and
\* what the magic and version fields read at their offsets.
\* Every length around the expected one with a matching header, and every
\* header at the expected length.
UData ==
    [len : {KVMFR_SIZE - 1, KVMFR_SIZE, KVMFR_SIZE + 1},
     magic : {KVMFR_MAGIC}, version : {KVMFR_VERSION}]
    \cup
    [len : {KVMFR_SIZE},
     magic : {KVMFR_MAGIC, "KVMFR--?"},
     version : {KVMFR_VERSION, KVMFR_VERSION + 1}]

GoodUData == [len |-> KVMFR_SIZE, magic |-> KVMFR_MAGIC, version |-> KVMFR_VERSION]

VARIABLES
    opts_timeout,   \* LGMPConnection.opts.timeout
    session,        \* LGMPConnection.session: <<>> is None, <<s>> is Some(s)
    poisoned,       \* whether the Mutex around the ligmars client is poisoned
    now,            \* the monotonic clock read by Instant::now()
    queue,          \* per channel, the host's messages this client has not read
    enqueued,       \* per channel, how many messages the host has enqueued
    handles,        \* the live update handles, each [chan, msg, size]: the
                    \* message referred to and its byte length
    delivered,      \* per channel, the messages get-update has returned, in order
    skipped,        \* per channel, the messages a fast-forward has discarded
    registered,     \* whether client_session_init has registered with the host
    since_init,     \* history, per channel, [st, at, period]: st is "fresh"
                    \* from a successful init (made at clock at) to the
                    \* channel's first tick, "emptied" once a pop saw the queue
                    \* empty meanwhile, "-" otherwise; "untracked" in the
                    \* behaviours that do not keep this history.  In the
                    \* behaviours that keep the pacing of the ticks instead: st
                    \* is "inited" from a successful init to the channel's
                    \* first tick, "paced" while every tick since has
                    \* returned Ok, was given the same tick_period (period)
                    \* and was called at most that long after the one before
                    \* (called at clock at), and no more than period has
                    \* passed since the latest; "unpaced" otherwise
    last            \* the call just made: operation, arguments, result,
                    \* and the primitive calls it made

vars == <<opts_timeout, session, poisoned, now, queue, enqueued, handles,
          delivered, skipped, registered, since_init, last>>

(***************************************************************************)
(* The record of the call just made.                                       *)
(*   op     "idle" (no call: the environment moved), "init", "tick",       *)
(*          "get", "drop", "as_frame", "as_ptr_msg"                        *)
(*   res    "Ok" or the LGError variant                                    *)
(*   val    what the result carries: <<v>> for KVMFRVersionMismatch(v),    *)
(*          <<m>> for Ok(Some(handle of message m)) and for Ok(reference   *)
(*          to the memory of message m), <<>> otherwise                    *)
(*   prim   the calls made to the ligmars client, in order, each           *)
(*          [call, chan, answer]                                           *)
(*   ff     <<>> or <<[res, hb, at]>>: what fast_forward returned, the     *)
(*          channel's heartbeat when it returned and the clock then        *)
(*   udata  <<u>>: the metadata client_session_init returned to init       *)
(*   first  the call was the channel's first tick since a successful init  *)
(*          (known in the behaviours that keep the since_init history)     *)
(***************************************************************************)
Untracked == [st |-> "untracked", at |-> 0, period |-> 0]

NoHistory == [st |-> "-", at |-> 0, period |-> 0]

Unpaced == [st |-> "unpaced", at |-> 0, period |-> 0]

\* The history of a channel once the clock reads t: the pacing is lost when
\* more than period has passed since the latest tick.
HistoryAt(h, t) ==
    IF h.st = "paced" /\ t - h.at > h.period THEN Unpaced ELSE h

\* The history of a channel after a tick called at clock t0 with tick_period
\* that returned res at clock t2, h being the history before; hadSession:
\* the connection held a session.
HistoryAfterTick(h, hadSession, tick_period, t0, res, t2) ==
    CASE ~hadSession \/ h.st \in {"untracked", "unpaced"} -> h
      [] h.st \in {"-", "fresh", "emptied"} -> NoHistory
      [] h.st = "inited" ->
            IF res = "Ok"
            THEN HistoryAt([st |-> "paced", at |-> t0, period |-> tick_period], t2)
            ELSE Unpaced
      [] h.st = "paced" ->
            IF res = "Ok" /\ tick_period = h.period /\ t0 - h.at <= h.period
            THEN HistoryAt([st |-> "paced", at |-> t0, period |-> tick_period], t2)
            ELSE Unpaced

\* The history of a channel after a successful init at clock t.
HistoryAfterInit(h, t) ==
    CASE h.st = "untracked" -> Untracked
      [] h.st \in {"inited", "paced", "unpaced"} ->
            [st |-> "inited", at |-> 0, period |-> 0]
      [] OTHER -> [st |-> "fresh", at |-> t, period |-> 0]

Idle ==
    [op |-> "idle", chan |-> "-", period |-> 0, res |-> "-", val |-> <<>>,
     prim |-> <<>>, ff |-> <<>>, udata |-> <<>>, first |-> FALSE]

Call(op, chan, period, res, val, prim, ff, udata) ==
    [op |-> op, chan |-> chan, period |-> period, res |-> res, val |-> val,
     prim |-> prim, ff |-> ff, udata |-> udata, first |-> FALSE]

PrimCall(call, chan, answer) == [call |-> call, chan |-> chan, answer |-> answer]

(***************************************************************************)
(* LGMPSession: the two heartbeats (the channel handles are the            *)
(* subscriptions, whose queues live in the environment).                   *)
(***************************************************************************)
LGMPSession(fhb, chb) ==
    [last_frame_heartbeat |-> fhb, last_cursor_heartbeat |-> chb]

\* match channel { Frame => &mut self.last_frame_heartbeat,
\*                 Cursor => &mut self.last_cursor_heartbeat }
Heartbeat(sess, channel) ==
    IF channel = "Frame" THEN sess.last_frame_heartbeat
    ELSE sess.last_cursor_heartbeat

\* Mutant of SetHeartbeat: the frame heartbeat is written whatever the channel.
SetHeartbeat_AlwaysFrame(sess, channel, t) ==
    [sess EXCEPT !.last_frame_heartbeat = t]

SetHeartbeat(sess, channel, t) ==
    IF channel = "Frame" THEN [sess EXCEPT !.last_frame_heartbeat = t]
    ELSE [sess EXCEPT !.last_cursor_heartbeat = t]

Last(s) == s[Len(s)]

(***************************************************************************)
(* The queue primitive (ligmars::client::ClientQueueHandle).  q is the     *)
(* channel's unread messages, oldest first; fail says that the primitive   *)
(* fails with a status other than LGMPErrQueueEmpty.                       *)
(***************************************************************************)
\* Mutant of pop_in_place: the newest unread message is handed out.
pop_in_place_Newest(q, fail) ==
    IF fail THEN [answer |-> "Err", msg |-> <<>>, queue |-> q]
    ELSE IF q = <<>> THEN [answer |-> "LGMPErrQueueEmpty", msg |-> <<>>, queue |-> q]
    ELSE [answer |-> "Ok", msg |-> <<Last(q)>>, queue |-> SubSeq(q, 1, Len(q) - 1)]

\* pop_in_place: the next unread message, or LGMPErrQueueEmpty.
pop_in_place(q, fail) ==
    IF fail THEN [answer |-> "Err", msg |-> <<>>, queue |-> q]
    ELSE IF q = <<>> THEN [answer |-> "LGMPErrQueueEmpty", msg |-> <<>>, queue |-> q]
    ELSE [answer |-> "Ok", msg |-> <<Head(q)>>, queue |-> Tail(q)]

\* advance_to_last: marks all but the most recent message as read, or
\* LGMPErrQueueEmpty.
advance_to_last(q, fail) ==
    IF fail THEN [answer |-> "Err", queue |-> q]
    ELSE IF q = <<>> THEN [answer |-> "LGMPErrQueueEmpty", queue |-> q]
    ELSE [answer |-> "Ok", queue |-> <<Last(q)>>]

\* Mutant of pop_ref: the heartbeat is recorded on every answer that is not a
\* failure, a message included.
pop_ref_HeartbeatOnMessage(sess, channel, q, fail, t) ==
    LET p == pop_in_place(q, fail)
        prim == <<PrimCall("pop_in_place", channel, p.answer)>>
    IN  IF p.answer = "Err"
        THEN [res |-> "LGMPCommunicationError", val |-> <<>>, session |-> sess,
              queue |-> p.queue, prim |-> prim]
        ELSE [res |-> "Ok", val |-> p.msg,
              session |-> SetHeartbeat(sess, channel, t),
              queue |-> p.queue, prim |-> prim]

\* Mutant of pop_ref: "queue empty" is answered Ok(None) without recording
\* the heartbeat.
pop_ref_NoHeartbeat(sess, channel, q, fail, t) ==
    LET p == pop_in_place(q, fail)
        prim == <<PrimCall("pop_in_place", channel, p.answer)>>
    IN  [res |-> IF p.answer = "Err" THEN "LGMPCommunicationError" ELSE "Ok",
         val |-> p.msg, session |-> sess, queue |-> p.queue, prim |-> prim]

(***************************************************************************)
(* LGMPSession::pop_ref at clock t: [res, val, session, queue, prim].      *)
(***************************************************************************)
pop_ref(sess, channel, q, fail, t) ==
    LET p == pop_in_place(q, fail)
        prim == <<PrimCall("pop_in_place", channel, p.answer)>>
    IN  CASE p.answer = "Ok" ->
                [res |-> "Ok", val |-> p.msg, session |-> sess,
                 queue |-> p.queue, prim |-> prim]
          [] p.answer = "LGMPErrQueueEmpty" ->
                [res |-> "Ok", val |-> <<>>,
                 session |-> SetHeartbeat(sess, channel, t),
                 queue |-> p.queue, prim |-> prim]
          [] OTHER ->
                [res |-> "LGMPCommunicationError", val |-> <<>>, session |-> sess,
                 queue |-> p.queue, prim |-> prim]

\* Mutant of fast_forward: "queue empty" is not filtered out of the failures.
fast_forward_EmptyIsError(sess, channel, q, fail, t) ==
    LET a == advance_to_last(q, fail)
        prim == <<PrimCall("advance_to_last", channel, a.answer)>>
    IN  [res |-> IF a.answer = "Ok" THEN "Ok" ELSE "LGMPCommunicationError",
         session |-> sess, queue |-> a.queue, prim |-> prim]

(***************************************************************************)
(* LGMPSession::fast_forward at clock t: [res, session, queue, prim].      *)
(***************************************************************************)
fast_forward(sess, channel, q, fail, t) ==
    LET a == advance_to_last(q, fail)
        prim == <<PrimCall("advance_to_last", channel, a.answer)>>
    IN  CASE a.answer = "Ok" ->
                [res |-> "Ok", session |-> sess, queue |-> a.queue, prim |-> prim]
          [] a.answer = "LGMPErrQueueEmpty" ->
                [res |-> "Ok", session |-> SetHeartbeat(sess, channel, t),
                 queue |-> a.queue, prim |-> prim]
          [] OTHER ->
                [res |-> "LGMPCommunicationError", session |-> sess,
                 queue |-> a.queue, prim |-> prim]

(***************************************************************************)
(* tick_frame / tick_cursor.                                               *)
(***************************************************************************)
\* let projected_timeout = sess.last_*_heartbeat + self.opts.timeout;
projected_timeout(sess, channel) == Heartbeat(sess, channel) + opts_timeout

\* Mutant of TickDue: the deadline test without the look-ahead.
TickDue_NoLookahead(t, tick_period, projected) == t > projected

\* Mutant of TickDue: the deadline test firing at the deadline itself.
TickDue_Inclusive(t, tick_period, projected) == t + tick_period >= projected

\* if Instant::now() + tick_period > projected_timeout
TickDue(t, tick_period, projected) == t + tick_period > projected

\* Mutant of ResetHeartbeat: the heartbeat is left as fast_forward left it.
ResetHeartbeat_Skipped(sess, channel, t) == sess

\* Mutant of ResetHeartbeat: the projected deadline is stored as the heartbeat.
ResetHeartbeat_Deadline(sess, channel, t) ==
    SetHeartbeat(sess, channel, t + opts_timeout)

\* sess.last_*_heartbeat = Instant::now();
ResetHeartbeat(sess, channel, t) == SetHeartbeat(sess, channel, t)

\* Mutant of tick: a failed fast-forward discards the session.
tick_DropsSessionOnFailure(s, channel, tick_period, q, fail, t0, t1, t2) ==
    IF s = <<>>
    THEN [session |-> s, queue |-> q, res |-> "Ok", prim |-> <<>>, ff |-> <<>>,
          now |-> t0]
    ELSE IF TickDue(t0, tick_period, projected_timeout(s[1], channel))
    THEN LET f == fast_forward(s[1], channel, q, fail, t1)
             ff == <<[res |-> f.res, hb |-> Heartbeat(f.session, channel),
                      at |-> t1]>>
         IN  IF f.res = "Ok"
             THEN [session |-> <<ResetHeartbeat(f.session, channel, t2)>>,
                   queue |-> f.queue, res |-> "Ok", prim |-> f.prim, ff |-> ff,
                   now |-> t2]
             ELSE [session |-> <<>>, queue |-> f.queue, res |-> f.res,
                   prim |-> f.prim, ff |-> ff, now |-> t2]
    ELSE [session |-> s, queue |-> q, res |-> "Ok", prim |-> <<>>, ff |-> <<>>,
          now |-> t0]

\* Mutant of tick: the heartbeat is reset whether the fast-forward failed or
\* not.
tick_ResetsOnFailure(s, channel, tick_period, q, fail, t0, t1, t2) ==
    IF s = <<>>
    THEN [session |-> s, queue |-> q, res |-> "Ok", prim |-> <<>>, ff |-> <<>>,
          now |-> t0]
    ELSE IF TickDue(t0, tick_period, projected_timeout(s[1], channel))
    THEN LET f == fast_forward(s[1], channel, q, fail, t1)
             ff == <<[res |-> f.res, hb |-> Heartbeat(f.session, channel),
                      at |-> t1]>>
         IN  [session |-> <<ResetHeartbeat(f.session, channel, t2)>>,
              queue |-> f.queue, res |-> f.res, prim |-> f.prim, ff |-> ff,
              now |-> t2]
    ELSE [session |-> s, queue |-> q, res |-> "Ok", prim |-> <<>>, ff |-> <<>>,
          now |-> t0]

\* The body of tick_frame (channel = "Frame") and tick_cursor (channel =
\* "Cursor") on the optional session s.  The clock reads t0 in the condition,
\* t1 inside fast_forward and t2 at the reset, t0 <= t1 <= t2.
\* [session, queue, res, prim, ff, now], now being the clock at return.
tick(s, channel, tick_period, q, fail, t0, t1, t2) ==
    IF s = <<>>
    THEN [session |-> s, queue |-> q, res |-> "Ok", prim |-> <<>>, ff |-> <<>>,
          now |-> t0]
    ELSE IF TickDue(t0, tick_period, projected_timeout(s[1], channel))
    THEN LET f == fast_forward(s[1], channel, q, fail, t1)
             ff == <<[res |-> f.res, hb |-> Heartbeat(f.session, channel),
                      at |-> t1]>>
         IN  IF f.res = "Ok"
             THEN [session |-> <<ResetHeartbeat(f.session, channel, t2)>>,
                   queue |-> f.queue, res |-> "Ok", prim |-> f.prim, ff |-> ff,
                   now |-> t2]
             ELSE [session |-> <<f.session>>, queue |-> f.queue, res |-> f.res,
                   prim |-> f.prim, ff |-> ff, now |-> t2]
    ELSE [session |-> s, queue |-> q, res |-> "Ok", prim |-> <<>>, ff |-> <<>>,
          now |-> t0]

\* Mutant of Borrowed: the handles do not borrow the connection.
Borrowed_Never == FALSE

\* The connection is mutably borrowed while an update handle lives: the handle
\* types carry the lifetime of the &mut self that get_*_update took.
Borrowed == handles # {}

Elems(q) == {q[i] : i \in 1..Len(q)}

TickCall(channel) ==
    /\ ~Borrowed
    /\ \E tick_period \in 0..MaxPeriod, fail \in BOOLEAN, d1, d2 \in 0..MaxDelay :
         /\ now + d1 + d2 <= MaxTime
         \* inputs a call does not read are fixed
         /\ LET due == session # <<>> /\
                       TickDue(now, tick_period,
                               projected_timeout(session[1], channel))
            IN  /\ ~due => (~fail /\ d1 = 0 /\ d2 = 0)
                /\ (due /\ fail) => (d1 = 0 /\ d2 = 0)
         /\ \E r \in {tick(session, channel, tick_period, queue[channel], fail,
                            now, now + d1, now + d1 + d2)} :
                /\ session' = r.session
                /\ queue' = [queue EXCEPT ![channel] = r.queue]
                /\ skipped' = [skipped EXCEPT ![channel] =
                                 @ \cup (Elems(queue[channel]) \ Elems(r.queue))]
                /\ now' = r.now
                /\ since_init' = [c \in KVMFRChans |->
                                    IF c = channel
                                    THEN HistoryAfterTick(since_init[c],
                                             session # <<>>, tick_period, now,
                                             r.res, r.now)
                                    ELSE HistoryAt(since_init[c], r.now)]
                /\ last' = [Call("tick", channel, tick_period, r.res, <<>>,
                                 r.prim, r.ff, <<>>)
                            EXCEPT !.first = session # <<>> /\
                                     since_init[channel].st
                                       \in {"fresh", "emptied", "inited"}]
    /\ UNCHANGED <<opts_timeout, poisoned, enqueued, handles, delivered,
                   registered>>

tick_frame == TickCall("Frame")

tick_cursor == TickCall("Cursor")

(***************************************************************************)
(* get_frame_update / get_cursor_update.                                   *)
(***************************************************************************)
\* Mutant of get_update: without a session the channel is popped all the same.
get_update_PopsWithoutSession(s, channel, q, fail, t) ==
    IF s = <<>>
    THEN LET p == pop_in_place(q, fail)
         IN  [session |-> s, queue |-> p.queue, res |-> "Ok", val |-> p.msg,
              prim |-> <<PrimCall("pop_in_place", channel, p.answer)>>]
    ELSE LET r == pop_ref(s[1], channel, q, fail, t)
         IN  [session |-> <<r.session>>, queue |-> r.queue, res |-> r.res,
              val |-> r.val, prim |-> r.prim]

\* The body of get_frame_update (channel = "Frame") and get_cursor_update
\* (channel = "Cursor") on the optional session s:
\* [session, queue, res, val, prim]; val = <<m>> is Ok(Some(handle of m)).
get_update(s, channel, q, fail, t) ==
    IF s = <<>>
    THEN [session |-> s, queue |-> q, res |-> "Ok", val |-> <<>>, prim |-> <<>>]
    ELSE LET r == pop_ref(s[1], channel, q, fail, t)
         IN  [session |-> <<r.session>>, queue |-> r.queue, res |-> r.res,
              val |-> r.val, prim |-> r.prim]

GetCall(channel) ==
    /\ ~Borrowed
    /\ \E fail \in BOOLEAN, size \in MsgSizes(channel) :
         /\ session = <<>> => ~fail
         /\ \E r \in {get_update(session, channel, queue[channel], fail, now)} :
            LET sawEmpty == r.prim # <<>> /\ r.prim[1].answer = "LGMPErrQueueEmpty"
            IN  \* inputs a call does not read are fixed
                /\ r.val = <<>> => size = StructSize(channel)
                /\ session' = r.session
                /\ queue' = [queue EXCEPT ![channel] = r.queue]
                /\ handles' = handles \cup {[chan |-> channel, msg |-> r.val[i],
                                              size |-> size] :
                                              i \in 1..Len(r.val)}
                /\ delivered' = [delivered EXCEPT ![channel] = @ \o r.val]
                /\ since_init' = [since_init EXCEPT ![channel] =
                                    IF @.st = "fresh" /\ sawEmpty
                                    THEN [st |-> "emptied", at |-> 0,
                                          period |-> 0]
                                    ELSE @]
                /\ last' = Call("get", channel, 0, r.res, r.val, r.prim, <<>>, <<>>)
    /\ UNCHANGED <<opts_timeout, poisoned, now, enqueued, skipped, registered>>

get_frame_update == GetCall("Frame")

get_cursor_update == GetCall("Cursor")

\* Dropping an update handle (KVMFRFrameHandle / KVMFRCursorHandle) ends the
\* borrow of the connection.
drop_handle ==
    /\ \E h \in handles :
         /\ handles' = handles \ {h}
         /\ last' = Call("drop", h.chan, 0, "-", <<h.msg>>, <<>>, <<>>, <<>>)
    /\ UNCHANGED <<opts_timeout, session, poisoned, now, queue, enqueued,
                   delivered, skipped, registered, since_init>>

(***************************************************************************)
(* KVMFRFrameHandle::as_frame / KVMFRCursorHandle::as_ptr_msg.             *)
(***************************************************************************)
\* Mutant of MessageTooSmall: a message of exactly the structure's size is
\* rejected too.
MessageTooSmall_Inclusive(size, expected) == size <= expected

\* if msg.size < size_of::<shm_datastructs::KVMFRFrame>() (KVMFRCursor)
MessageTooSmall(size, expected) == size < expected

TooSmallError(channel) ==
    IF channel = "Frame" THEN "FrameChannelMessageTooSmall"
    ELSE "CursorChannelMessageTooSmall"

\* The body of as_frame (handle of the frame channel) and as_ptr_msg (handle
\* of the cursor channel): [res, val]; val = <<m>> is Ok(reference to the
\* memory of message m, cast to the channel's structure).
as_view(h) ==
    IF MessageTooSmall(h.size, StructSize(h.chan))
    THEN [res |-> TooSmallError(h.chan), val |-> <<>>]
    ELSE [res |-> "Ok", val |-> <<h.msg>>]

ViewCall(op, channel) ==
    /\ \E h \in handles :
         /\ h.chan = channel
         /\ \E r \in {as_view(h)} :
                last' = Call(op, channel, 0, r.res, r.val, <<>>, <<>>, <<>>)
    /\ UNCHANGED <<opts_timeout, session, poisoned, now, queue, enqueued, handles,
                   delivered, skipped, registered, since_init>>

as_frame == ViewCall("as_frame", "Frame")

as_ptr_msg == ViewCall("as_ptr_msg", "Cursor")

(***************************************************************************)
(* init.                                                                   *)
(***************************************************************************)
\* Mutant of LengthMismatch: only metadata that is too short is rejected.
LengthMismatch_TooShort(udata) == udata.len < KVMFR_SIZE

\* if udata_raw.len() != size_of::<shm_datastructs::KVMFR>()
LengthMismatch(udata) == udata.len # KVMFR_SIZE

\* if magic != &KVMFR_MAGIC[0..udata.magic.len()]
\*    || udata.version != KVMFR_VERSION
HeaderMismatch(udata) ==
    udata.magic # KVMFR_MAGIC \/ udata.version # KVMFR_VERSION

\* Err(LGError::KVMFRVersionMismatch(shm_datastructs::KVMFR_VERSION))
VersionMismatchArg(udata) == KVMFR_VERSION

\* Mutant of InitialHeartbeat: the heartbeats start at the time of init.
InitialHeartbeat_Now(t) == t

\* let last_frame_heartbeat = now - self.opts.timeout; (and the cursor's)
InitialHeartbeat(t) == t - opts_timeout

\* Instant - Duration panics when the result is not representable; below the
\* clock's origin that depends on the platform's Instant.
InstantUnderflow(t) == t - opts_timeout < 0

\* Mutant of LockPoisoned: the poison of the lock is ignored.
LockPoisoned_Ignored == FALSE

\* let mut client = self.client.lock()?; lock() answers Err(PoisonError) once
\* a holder of the guard has panicked.
LockPoisoned == poisoned

\* Mutant of init_body: the cursor channel is subscribed before the frame
\* channel.
init_body_CursorFirst(s, regFail, udata, subFail, panics, t) ==
    LET lockOk == <<PrimCall("lock", "-", "Ok")>>
        regOk == lockOk \o <<PrimCall("client_session_init", "-", "Ok")>>
        subC == regOk \o <<PrimCall("client_subscribe", "Cursor",
                                    IF subFail = "Cursor" THEN "Err" ELSE "Ok")>>
        subF == subC \o <<PrimCall("client_subscribe", "Frame",
                                   IF subFail = "Frame" THEN "Err" ELSE "Ok")>>
        out(res, val, prim, sess, reg, poi) ==
            [res |-> res, val |-> val, prim |-> prim, session |-> sess,
             registered |-> reg, poisoned |-> poi]
    IN  IF LockPoisoned
        THEN out("LGMPClientLockPoisonError", <<>>,
                 <<PrimCall("lock", "-", "Poisoned")>>, s, registered, poisoned)
        ELSE IF regFail
        THEN out("LGMPCommunicationError", <<>>,
                 lockOk \o <<PrimCall("client_session_init", "-", "Err")>>, s,
                 registered, poisoned)
        ELSE IF LengthMismatch(udata)
        THEN out("KVMFRVersionMismatch", <<VersionMismatchArg(udata)>>, regOk, s,
                 TRUE, poisoned)
        ELSE IF HeaderMismatch(udata)
        THEN out("KVMFRVersionMismatch", <<VersionMismatchArg(udata)>>, regOk, s,
                 TRUE, poisoned)
        ELSE IF subFail = "Cursor"
        THEN out("LGMPCommunicationError", <<>>, subC, s, TRUE, poisoned)
        ELSE IF subFail = "Frame"
        THEN out("LGMPCommunicationError", <<>>, subF, s, TRUE, poisoned)
        ELSE IF panics
        THEN out("Panic", <<>>, subF, s, TRUE, TRUE)
        ELSE out("Ok", <<>>, subF,
                 <<LGMPSession(InitialHeartbeat(t), InitialHeartbeat(t))>>,
                 TRUE, poisoned)

\* The body of init.  regFail: client_session_init fails; subFail: the channel
\* whose client_subscribe fails, or "-"; panics: the subtraction of the timeout
\* panics (only where InstantUnderflow).
\* [res, val, prim, session, registered, poisoned]
init_body(s, regFail, udata, subFail, panics, t) ==
    LET lockOk == <<PrimCall("lock", "-", "Ok")>>
        regOk == lockOk \o <<PrimCall("client_session_init", "-", "Ok")>>
        subF == regOk \o <<PrimCall("client_subscribe", "Frame",
                                    IF subFail = "Frame" THEN "Err" ELSE "Ok")>>
        subC == subF \o <<PrimCall("client_subscribe", "Cursor",
                                   IF subFail = "Cursor" THEN "Err" ELSE "Ok")>>
        out(res, val, prim, sess, reg, poi) ==
            [res |-> res, val |-> val, prim |-> prim, session |-> sess,
             registered |-> reg, poisoned |-> poi]
    IN  IF LockPoisoned
        THEN out("LGMPClientLockPoisonError", <<>>,
                 <<PrimCall("lock", "-", "Poisoned")>>, s, registered, poisoned)
        ELSE IF regFail
        THEN out("LGMPCommunicationError", <<>>,
                 lockOk \o <<PrimCall("client_session_init", "-", "Err")>>, s,
                 registered, poisoned)
        ELSE IF LengthMismatch(udata)
        THEN out("KVMFRVersionMismatch", <<VersionMismatchArg(udata)>>, regOk, s,
                 TRUE, poisoned)
        ELSE IF HeaderMismatch(udata)
        THEN out("KVMFRVersionMismatch", <<VersionMismatchArg(udata)>>, regOk, s,
                 TRUE, poisoned)
        ELSE IF subFail = "Frame"
        THEN out("LGMPCommunicationError", <<>>, subF, s, TRUE, poisoned)
        ELSE IF subFail = "Cursor"
        THEN out("LGMPCommunicationError", <<>>, subC, s, TRUE, poisoned)
        ELSE IF panics
        THEN out("Panic", <<>>, subC, s, TRUE, TRUE)
        ELSE out("Ok", <<>>, subC,
                 <<LGMPSession(InitialHeartbeat(t), InitialHeartbeat(t))>>,
                 TRUE, poisoned)

init ==
    /\ ~Borrowed
    /\ \E regFail \in BOOLEAN, udata \in UData, subFail \in {"-"} \cup KVMFRChans,
          panics \in BOOLEAN :
         /\ panics => InstantUnderflow(now)
         \* inputs a call does not read are fixed
         /\ (poisoned \/ regFail) => udata = GoodUData
         /\ (poisoned \/ regFail \/ udata # GoodUData) => (subFail = "-" /\ ~panics)
         /\ poisoned => ~regFail
         /\ subFail # "-" => ~panics
         /\ \E r \in {init_body(session, regFail, udata, subFail, panics, now)} :
                /\ session' = r.session
                /\ registered' = r.registered
                /\ poisoned' = r.poisoned
                /\ since_init' = IF r.res = "Ok"
                                 THEN [c \in KVMFRChans |->
                                         HistoryAfterInit(since_init[c], now)]
                                 ELSE since_init
                /\ last' = Call("init", "-", 0, r.res, r.val, r.prim, <<>>,
                                IF Len(r.prim) >= 2 /\ r.prim[2].answer = "Ok"
                                THEN <<udata>> ELSE <<>>)
    /\ UNCHANGED <<opts_timeout, now, queue, enqueued, handles, delivered, skipped>>

(***************************************************************************)
(* The environment: the host and the clock.                                *)
(***************************************************************************)
Total(f) == f["Frame"] + f["Cursor"]

\* The host posts the next message of a channel; messages are numbered in the
\* order the host enqueues them.
host_enqueue ==
    /\ Total(enqueued) < MaxMsgs
    /\ \E c \in KVMFRChans :
         /\ enqueued' = [enqueued EXCEPT ![c] = @ + 1]
         /\ queue' = [queue EXCEPT ![c] = Append(@, enqueued[c] + 1)]
    /\ last' = Idle
    /\ UNCHANGED <<opts_timeout, session, poisoned, now, handles, delivered,
                   skipped, registered, since_init>>

elapse ==
    /\ now < MaxTime
    /\ now' = now + 1
    /\ since_init' = [c \in KVMFRChans |-> HistoryAt(since_init[c], now')]
    /\ last' = Idle
    /\ UNCHANGED <<opts_timeout, session, poisoned, queue, enqueued, handles,
                   delivered, skipped, registered>>

(***************************************************************************)
(* LGMPConnection::open: the connection as constructed, session: None.     *)
(***************************************************************************)
Opened ==
    /\ opts_timeout \in 0..MaxTimeout
    /\ session = <<>>
    /\ poisoned = FALSE
    /\ now = 0
    /\ queue = [c \in KVMFRChans |-> <<>>]
    /\ enqueued = [c \in KVMFRChans |-> 0]
    /\ handles = {}
    /\ delivered = [c \in KVMFRChans |-> <<>>]
    /\ skipped = [c \in KVMFRChans |-> {}]
    /\ registered = FALSE
    /\ last = Idle

Init ==
    /\ Opened
    /\ since_init = [c \in KVMFRChans |-> Untracked]

\* The same connection, in the behaviours that keep the since_init history.
InitFirstTick ==
    /\ Opened
    /\ since_init = [c \in KVMFRChans |-> NoHistory]

Next ==
    \/ init
    \/ tick_frame
    \/ tick_cursor
    \/ get_frame_update
    \/ get_cursor_update
    \/ as_frame
    \/ as_ptr_msg
    \/ drop_handle
    \/ host_enqueue
    \/ elapse

\* The same connection, in the behaviours that keep the pacing of the ticks.
InitPaced ==
    /\ Opened
    /\ since_init = [c \in KVMFRChans |-> Unpaced]

Spec == Init /\ [][Next]_vars

SpecPaced == InitPaced /\ [][Next]_vars

SpecFirstTick == InitFirstTick /\ [][Next]_vars

(***************************************************************************)
(* Vocabulary of the properties.                                           *)
(***************************************************************************)
\* The step is a call of tick_frame (c = "Frame") or tick_cursor.
TickStep(c) == last'.op = "tick" /\ last'.chan = c

\* The step is a call of get_frame_update (c = "Frame") or get_cursor_update.
GetStep(c) == last'.op = "get" /\ last'.chan = c

InitStep == last'.op = "init"

\* The fast-forwards of channel c that the call just made asked of the primitive.
FastForwards(l, c) ==
    SelectSeq(l.prim, LAMBDA x : x.call = "advance_to_last" /\ x.chan = c)

WrongUData(u) ==
    u.len # KVMFR_SIZE \/ u.magic # KVMFR_MAGIC \/ u.version # KVMFR_VERSION

(***************************************************************************)
(* C1: with a session, a tick_frame / tick_cursor call made when           *)
(* now + tick_period > last_heartbeat + timeout invokes fast-forward on    *)
(* that channel exactly once and, when the fast-forward does not fail,     *)
(* leaves the channel's heartbeat equal to the clock.                      *)
(***************************************************************************)
C1_DueTickFastForwards ==
    [][\A c \in KVMFRChans :
         (/\ TickStep(c)
          /\ session # <<>>
          /\ now + last'.period > Heartbeat(session[1], c) + opts_timeout)
         => /\ Len(FastForwards(last', c)) = 1
            /\ Len(last'.prim) = 1
            /\ Len(last'.ff) = 1
            /\ last'.res = "Ok" => Heartbeat(session'[1], c) = now']_vars

\* A due tick on a channel with two unread messages has fast-forwarded and
\* reset the heartbeat.
C1_Witness ==
    /\ last.op = "tick"
    /\ session # <<>>
    /\ Len(FastForwards(last, last.chan)) = 1
    /\ last.prim[1].answer = "Ok"
    /\ last.res = "Ok"
    /\ skipped[last.chan] # {}
    /\ Heartbeat(session[1], last.chan) = now

(***************************************************************************)
(* C2: with a session, a tick call made when                               *)
(* now + tick_period <= last_heartbeat + timeout invokes no fast-forward,  *)
(* returns Ok and changes nothing: not the pending messages or the read    *)
(* position, not a heartbeat, not the clock; so repeating it changes       *)
(* nothing either.                                                         *)
(***************************************************************************)
C2_EarlyTickIsNoOp ==
    [][\A c \in KVMFRChans :
         (/\ TickStep(c)
          /\ session # <<>>
          /\ now + last'.period <= Heartbeat(session[1], c) + opts_timeout)
         => /\ last'.prim = <<>>
            /\ last'.ff = <<>>
            /\ last'.res = "Ok"
            /\ session' = session
            /\ queue' = queue
            /\ skipped' = skipped
            /\ delivered' = delivered
            /\ handles' = handles
            /\ now' = now]_vars

\* An early tick that left unread messages in place.
C2_Witness ==
    /\ last.op = "tick"
    /\ session # <<>>
    /\ last.prim = <<>>
    /\ last.res = "Ok"
    /\ Len(queue[last.chan]) = 2
    /\ now + last.period <= Heartbeat(session[1], last.chan) + opts_timeout

(***************************************************************************)
(* C3 as stated: after init with registration metadata of wrong length,    *)
(* wrong magic or wrong version, init has failed with                      *)
(* KVMFRVersionMismatch(KVMFR_VERSION) and the connection holds no session.*)
(***************************************************************************)
C3_Original ==
    (last.op = "init" /\ last.udata # <<>> /\ WrongUData(last.udata[1]))
    => /\ last.res = "KVMFRVersionMismatch"
       /\ last.val = <<KVMFR_VERSION>>
       /\ session = <<>>

(***************************************************************************)
(* C3 amended: init with registration metadata of wrong length, wrong      *)
(* magic or wrong version fails with KVMFRVersionMismatch(KVMFR_VERSION),  *)
(* subscribes to no channel and leaves the session field as it was: none   *)
(* is created, and one stored by an earlier successful init stays.  The    *)
(* length decides first: a length off by one is rejected whatever the      *)
(* header reads.                                                           *)
(***************************************************************************)
C3_MismatchLeavesSession ==
    [][(InitStep /\ last'.udata # <<>> /\ WrongUData(last'.udata[1]))
       => /\ last'.res = "KVMFRVersionMismatch"
          /\ last'.val = <<KVMFR_VERSION>>
          /\ session' = session
          /\ session = <<>> => session' = <<>>
          /\ \A i \in 1..Len(last'.prim) : last'.prim[i].call # "client_subscribe"]_vars

\* Metadata one byte short whose header would match has been rejected, and
\* the connection holds no session.
C3_Witness ==
    /\ last.op = "init"
    /\ last.udata = <<[GoodUData EXCEPT !.len = KVMFR_SIZE - 1]>>
    /\ last.res = "KVMFRVersionMismatch"
    /\ last.val = <<KVMFR_VERSION>>
    /\ session = <<>>

C5_Original ==
    [][\A c \in KVMFRChans :
         (TickStep(c) /\ since_init[c].st \in {"fresh", "emptied"})
         => Len(FastForwards(last', c)) = 1]_vars

(***************************************************************************)
(* C5 amended: the first tick_frame and the first tick_cursor call after a *)
(* successful init invokes fast-forward on its channel, whatever the       *)
(* timeout, when tick_period plus the time elapsed since init is greater   *)
(* than zero and no get-update of that channel has seen the queue empty    *)
(* since init.                                                             *)
(***************************************************************************)
C5_FirstTickFastForwards ==
    [][\A c \in KVMFRChans :
         (/\ TickStep(c)
          /\ since_init[c].st = "fresh"
          /\ last'.period + (now - since_init[c].at) > 0)
         => Len(FastForwards(last', c)) = 1]_vars

\* The first tick of a channel after init, made with tick_period 0 after time
\* has passed, has fast-forwarded.
C5_Witness ==
    /\ last.op = "tick"
    /\ last.first
    /\ now > 0
    /\ last.period = 0
    /\ Len(FastForwards(last, last.chan)) = 1
    /\ last.res = "Ok"

(***************************************************************************)
(* C6: with a session, get_frame_update / get_cursor_update on a channel   *)
(* with no pending messages, the primitive answering "queue empty",        *)
(* returns Ok(None) and sets that channel's heartbeat to the time of the   *)
(* call.                                                                   *)
(***************************************************************************)
C6_EmptyGetRefreshesHeartbeat ==
    [][\A c \in KVMFRChans :
         (/\ GetStep(c)
          /\ session # <<>>
          /\ queue[c] = <<>>
          /\ last'.prim # <<PrimCall("pop_in_place", c, "Err")>>)
         => /\ last'.prim = <<PrimCall("pop_in_place", c, "LGMPErrQueueEmpty")>>
            /\ last'.res = "Ok"
            /\ last'.val = <<>>
            /\ handles' = handles
            /\ now' = now
            /\ Heartbeat(session'[1], c) = now]_vars

\* A get-update that found the queue empty and moved the heartbeat forward.
C6_Witness ==
    /\ last.op = "get"
    /\ session # <<>>
    /\ last.prim = <<PrimCall("pop_in_place", last.chan, "LGMPErrQueueEmpty")>>
    /\ last.res = "Ok"
    /\ last.val = <<>>
    /\ now > 0
    /\ Heartbeat(session[1], last.chan) = now

(***************************************************************************)
(* C7: when the primitive answers "queue empty" to a fast-forward,         *)
(* fast_forward returns Ok and has set the channel's heartbeat to the      *)
(* clock it read, a time within the call.                                  *)
(***************************************************************************)
C7_FastForwardOnEmpty ==
    [][\A c \in KVMFRChans :
         (/\ TickStep(c)
          /\ FastForwards(last', c)
               = <<PrimCall("advance_to_last", c, "LGMPErrQueueEmpty")>>)
         => /\ Len(last'.ff) = 1
            /\ last'.ff[1].res = "Ok"
            /\ last'.ff[1].hb = last'.ff[1].at
            /\ now <= last'.ff[1].at /\ last'.ff[1].at <= now'
            /\ last'.res = "Ok"]_vars

\* A fast-forward of an empty channel has succeeded and refreshed the
\* heartbeat before tick reset it at a later clock.
C7_Witness ==
    /\ last.op = "tick"
    /\ last.prim = <<PrimCall("advance_to_last", last.chan, "LGMPErrQueueEmpty")>>
    /\ last.ff[1].res = "Ok"
    /\ last.ff[1].hb = last.ff[1].at
    /\ last.ff[1].at < now
    /\ last.res = "Ok"

(***************************************************************************)
(* C8: while an update handle of a channel is live no pop and no           *)
(* fast-forward is performed on that channel, so at most one handle per    *)
(* channel is live; a get-update made once the handle is released performs *)
(* its pop, which returns the oldest unread message unless the primitive   *)
(* fails.                                                                  *)
(***************************************************************************)
HandlesOf(hs, c) == {h \in hs : h.chan = c}

C8_HandleExcludesChannel ==
    [][\A c \in KVMFRChans :
         /\ HandlesOf(handles, c) # {}
              => \A i \in 1..Len(last'.prim) : last'.prim[i].chan # c
         /\ Cardinality(HandlesOf(handles', c)) <= 1
         /\ (GetStep(c) /\ session # <<>> /\ last.op = "drop" /\ last.chan = c)
              => /\ Len(last'.prim) = 1
                 /\ last'.prim[1].call = "pop_in_place"
                 /\ last'.prim[1].answer # "Err" => last'.res = "Ok"
                 /\ (last'.prim[1].answer # "Err" /\ queue[c] # <<>>)
                      => last'.val = <<Head(queue[c])>>]_vars

\* A handle was obtained and released, and the next get-update of the channel
\* has returned the next message.
C8_Witness ==
    /\ last.op = "get"
    /\ last.res = "Ok"
    /\ Len(delivered[last.chan]) = 2
    /\ last.val = <<delivered[last.chan][2]>>
    /\ {<<h.chan, h.msg>> : h \in handles}
         = {<<last.chan, delivered[last.chan][2]>>}

(***************************************************************************)
(* C9: per channel the messages get-update has returned are in the order   *)
(* the host enqueued them, without duplicates; a message a fast-forward    *)
(* skipped is never returned; and every message that is neither pending    *)
(* nor returned was skipped by a fast-forward: a get-update returns the    *)
(* oldest unread message and only a fast-forward discards any.             *)
(***************************************************************************)
C9_Fifo ==
    [][\A c \in KVMFRChans :
         /\ \A i, j \in 1..Len(delivered'[c]) :
              i < j => delivered'[c][i] < delivered'[c][j]
         /\ Elems(delivered'[c]) \subseteq 1..enqueued'[c]
         /\ Elems(delivered'[c]) \cap skipped'[c] = {}
         /\ \A m \in 1..enqueued'[c] :
              m \in Elems(delivered'[c]) \cup Elems(queue'[c]) \cup skipped'[c]
         /\ (GetStep(c) /\ delivered'[c] # delivered[c])
              => delivered'[c] = Append(delivered[c], Head(queue[c]))
         /\ skipped'[c] # skipped[c]
              => (TickStep(c) /\ Len(FastForwards(last', c)) = 1)]_vars

\* A fast-forward skipped a message and the following get-update returned the
\* newest one.
C9_Witness ==
    \E c \in KVMFRChans :
        /\ skipped[c] = {1}
        /\ delivered[c] = <<2>>

(***************************************************************************)
(* C10: while a session exists each channel's heartbeat is at most the     *)
(* clock, and no tick or get-update call lowers a heartbeat.               *)
(***************************************************************************)
C10_HeartbeatBounded ==
    [][\A c \in KVMFRChans :
         /\ session' # <<>> => Heartbeat(session'[1], c) <= now'
         /\ (/\ last'.op \in {"tick", "get"}
             /\ session # <<>>)
              => /\ session' # <<>>
                 /\ Heartbeat(session'[1], c) >= Heartbeat(session[1], c)]_vars

\* Both heartbeats have moved forward from their initial value, to different
\* times.
C10_Witness ==
    /\ session # <<>>
    /\ last.op \in {"tick", "get"}
    /\ session[1].last_frame_heartbeat = now
    /\ session[1].last_cursor_heartbeat < now
    /\ session[1].last_cursor_heartbeat >= 0

(***************************************************************************)
(* C11: while the connection holds no session, tick_frame and tick_cursor  *)
(* return Ok and get_frame_update and get_cursor_update return Ok(None);   *)
(* none of them calls the queue client, and none changes a channel (its    *)
(* pending messages, what was delivered or skipped), a handle, the lock,   *)
(* the registration, the configuration or the clock.                       *)
(***************************************************************************)
C11_NoSessionNoOp ==
    [][\A c \in KVMFRChans :
         ((TickStep(c) \/ GetStep(c)) /\ session = <<>>)
         => /\ last'.res = "Ok"
            /\ last'.val = <<>>
            /\ last'.prim = <<>>
            /\ last'.ff = <<>>
            /\ UNCHANGED <<opts_timeout, session, poisoned, now, queue, enqueued,
                           handles, delivered, skipped, registered,
                           since_init>>]_vars

\* Before any successful init a get-update has answered "no update" although
\* the host has a message pending on the channel and time has passed.
C11_Witness ==
    /\ last.op = "get"
    /\ session = <<>>
    /\ last.res = "Ok"
    /\ last.val = <<>>
    /\ queue[last.chan] # <<>>
    /\ now > 0

(***************************************************************************)
(* C12: as_frame on a frame handle (as_ptr_msg on a cursor handle) whose   *)
(* message is shorter than the KVMFRFrame (KVMFRCursor) structure returns  *)
(* FrameChannelMessageTooSmall (CursorChannelMessageTooSmall) and no view; *)
(* when the message is at least as long as the structure it returns Ok     *)
(* with the view of that same message.  Neither changes anything.          *)
(***************************************************************************)
ViewStep(c) ==
    /\ last'.op = (IF c = "Frame" THEN "as_frame" ELSE "as_ptr_msg")
    /\ last'.chan = c

C12_SizeCheckedView ==
    [][\A c \in KVMFRChans :
         ViewStep(c)
         => /\ HandlesOf(handles, c) # {}
            /\ handles' = handles
            /\ session' = session /\ queue' = queue
            /\ \A h \in HandlesOf(handles, c) :
                 /\ h.size < StructSize(c)
                      => /\ last'.res = (IF c = "Frame"
                                         THEN "FrameChannelMessageTooSmall"
                                         ELSE "CursorChannelMessageTooSmall")
                         /\ last'.val = <<>>
                 /\ h.size >= StructSize(c)
                      => /\ last'.res = "Ok"
                         /\ last'.val = <<h.msg>>]_vars

\* A frame message one byte shorter than the structure has been refused.
C12_Witness ==
    /\ last.op = "as_frame"
    /\ last.res = "FrameChannelMessageTooSmall"
    /\ last.val = <<>>
    /\ \E h \in handles :
         /\ h.chan = "Frame"
         /\ h.size = KVMFRFrame_SIZE - 1

(***************************************************************************)
(* C13: when the primitive answers a pop (get-update) or a fast-forward    *)
(* (tick) with a failure other than "queue empty", the call returns        *)
(* LGMPCommunicationError, has called the primitive exactly once, hands    *)
(* out no handle and leaves both heartbeats and the pending messages as    *)
(* they were: the failed tick does not reset the heartbeat.                *)
(***************************************************************************)
C13_FailurePropagates ==
    [][\A c \in KVMFRChans :
         (/\ TickStep(c) \/ GetStep(c)
          /\ \E i \in 1..Len(last'.prim) : last'.prim[i].answer = "Err")
         => /\ last'.res = "LGMPCommunicationError"
            /\ last'.val = <<>>
            /\ Len(last'.prim) = 1
            /\ last'.prim[1].chan = c
            /\ session' = session
            /\ queue' = queue
            /\ handles' = handles]_vars

\* A due tick whose fast-forward failed has returned the failure and left the
\* heartbeat, which lies in the past, alone.
C13_Witness ==
    /\ last.op = "tick"
    /\ last.prim = <<PrimCall("advance_to_last", last.chan, "Err")>>
    /\ last.res = "LGMPCommunicationError"
    /\ session # <<>>
    /\ Heartbeat(session[1], last.chan) < now
    /\ Heartbeat(session[1], last.chan) >= 0

(***************************************************************************)
(* C14 as stated: a live update handle locks its own channel only: while a *)
(* frame handle is live and no cursor handle is, get_cursor_update and     *)
(* tick_cursor can be called on the connection, and while a cursor handle  *)
(* is live and no frame handle is, get_frame_update and tick_frame can.    *)
(***************************************************************************)
C14_Original ==
    /\ (HandlesOf(handles, "Frame") # {} /\ HandlesOf(handles, "Cursor") = {})
         => (ENABLED get_cursor_update /\ ENABLED tick_cursor)
    /\ (HandlesOf(handles, "Cursor") # {} /\ HandlesOf(handles, "Frame") = {})
         => (ENABLED get_frame_update /\ ENABLED tick_frame)

(***************************************************************************)
(* C15: init called while the lock around the queue client is poisoned     *)
(* returns LGMPClientLockPoisonError, neither a communication nor a        *)
(* version-mismatch error; it makes no registration and no subscription    *)
(* and leaves the session field, the registration and the poison as they   *)
(* were.                                                                   *)
(***************************************************************************)
C15_PoisonedLockIsDistinctError ==
    [][(InitStep /\ poisoned)
       => /\ last'.res = "LGMPClientLockPoisonError"
          /\ last'.res \notin {"LGMPCommunicationError", "KVMFRVersionMismatch"}
          /\ \A i \in 1..Len(last'.prim) :
               last'.prim[i].call \notin {"client_session_init", "client_subscribe"}
          /\ session' = session
          /\ registered' = registered
          /\ poisoned']_vars

\* A connection holding a session, whose lock a panicking init has poisoned,
\* has refused a further init with the lock-poisoned error.
C15_Witness ==
    /\ last.op = "init"
    /\ last.res = "LGMPClientLockPoisonError"
    /\ poisoned
    /\ session # <<>>

(***************************************************************************)
(* C16 as stated: on a channel whose ticks since a successful init have    *)
(* all returned Ok, were all given the same tick_period P and were each    *)
(* called at most P after the one before, the clock at the call of a tick  *)
(* does not exceed last_heartbeat + timeout.  (Taken from the second tick  *)
(* on: at the first tick the heartbeat is still the one init stored.)      *)
(***************************************************************************)
C16_Original ==
    [][\A c \in KVMFRChans :
         (/\ TickStep(c)
          /\ session # <<>>
          /\ since_init[c].st = "paced"
          /\ last'.period = since_init[c].period
          /\ now - since_init[c].at <= since_init[c].period)
         => now <= Heartbeat(session[1], c) + opts_timeout]_vars

(***************************************************************************)
(* C16 amended: on a channel whose ticks since a successful init have all  *)
(* returned Ok, were all given the same tick_period P, P being at most the *)
(* configured timeout, and were each called at most P after the one        *)
(* before, the clock at the call of every tick after the first does not    *)
(* exceed last_heartbeat + timeout.                                        *)
(***************************************************************************)
C16_PacedTicksMeetDeadline ==
    [][\A c \in KVMFRChans :
         (/\ TickStep(c)
          /\ session # <<>>
          /\ since_init[c].st = "paced"
          /\ last'.period = since_init[c].period
          /\ now - since_init[c].at <= since_init[c].period
          /\ last'.period <= opts_timeout)
         => now <= Heartbeat(session[1], c) + opts_timeout]_vars

\* A tick after the first, called one period after the one before with the
\* period equal to the timeout, has fast-forwarded at the deadline itself.
C16_Witness ==
    /\ last.op = "tick"
    /\ ~last.first
    /\ session # <<>>
    /\ since_init[last.chan] = [st |-> "paced", at |-> now, period |-> 1]
    /\ opts_timeout = 1
    /\ now = MaxTime
    /\ Len(FastForwards(last, last.chan)) = 1

InitOrder ==
    << [call |-> "lock", chan |-> "-"],
       [call |-> "client_session_init", chan |-> "-"],
       [call |-> "client_subscribe", chan |-> "Frame"],
       [call |-> "client_subscribe", chan |-> "Cursor"] >>

C18_InitStepsInOrder ==
    [][InitStep
       => /\ Len(last'.prim) \in 1..Len(InitOrder)
          /\ \A i \in 1..Len(last'.prim) :
               /\ last'.prim[i].call = InitOrder[i].call
               /\ last'.prim[i].chan = InitOrder[i].chan
               /\ i < Len(last'.prim) => last'.prim[i].answer = "Ok"
          /\ last'.res = "KVMFRVersionMismatch" => Len(last'.prim) = 2
          /\ (last'.udata # <<>> /\ WrongUData(last'.udata[1]))
               => Len(last'.prim) = 2
          /\ Last(last'.prim).answer # "Ok"
               => /\ last'.res # "Ok"
                  /\ session' = session
          /\ (last'.res = "Ok" \/ session' # session)
               => /\ last'.res = "Ok"
                  /\ Len(last'.prim) = Len(InitOrder)
                  /\ \A i \in 1..Len(last'.prim) : last'.prim[i].answer = "Ok"
                  /\ session' # <<>>]_vars

\* On a connection without a session the subscription of the cursor channel
\* has failed after that of the frame channel succeeded, and no session has
\* been stored.
C18_Witness ==
    /\ last.op = "init"
    /\ Len(last.prim) = 4
    /\ last.prim[3] = PrimCall("client_subscribe", "Frame", "Ok")
    /\ last.prim[4] = PrimCall("client_subscribe", "Cursor", "Err")
    /\ last.res = "LGMPCommunicationError"
    /\ session = <<>>

(***************************************************************************)
(* C19: a tick or get-update of one channel makes no primitive call on the *)
(* other channel and leaves the other channel's heartbeat, pending         *)
(* messages, read position (what was delivered and what was skipped) and   *)
(* handles as they were.                                                   *)
(***************************************************************************)
C19_ChannelsIndependent ==
    [][\A c \in KVMFRChans : \A d \in KVMFRChans \ {c} :
         (TickStep(c) \/ GetStep(c))
         => /\ \A i \in 1..Len(last'.prim) : last'.prim[i].chan = c
            /\ session # <<>>
                 => /\ session' # <<>>
                    /\ Heartbeat(session'[1], d) = Heartbeat(session[1], d)
            /\ queue'[d] = queue[d]
            /\ delivered'[d] = delivered[d]
            /\ skipped'[d] = skipped[d]
            /\ HandlesOf(handles', d) = HandlesOf(handles, d)]_vars

\* A tick of the cursor channel has fast-forwarded and reset the cursor
\* heartbeat while a frame message stays pending and the frame heartbeat
\* stays in the past.
C19_Witness ==
    /\ last.op = "tick"
    /\ last.chan = "Cursor"
    /\ Len(FastForwards(last, "Cursor")) = 1
    /\ last.res = "Ok"
    /\ session # <<>>
    /\ session[1].last_cursor_heartbeat = now
    /\ session[1].last_frame_heartbeat < now
    /\ queue["Frame"] # <<>>

(***************************************************************************)
(* C20: the connection as open returns it holds no session and is not      *)
(* registered with the host; the session field goes from none to a session *)
(* only in an init that returns Ok, nothing ever removes a session, only   *)
(* init registers, and across a tick or a get-update, successful or not,   *)
(* the connection holds a session exactly if it held one before.           *)
(***************************************************************************)
C20_Lifecycle ==
    /\ session = <<>>
    /\ ~registered
    /\ [][/\ Len(session') # Len(session)
              => /\ InitStep
                 /\ last'.res = "Ok"
                 /\ session = <<>>
          /\ session' # session
              => \/ InitStep /\ last'.res = "Ok"
                 \/ /\ last'.op \in {"tick", "get"}
                    /\ Len(session') = Len(session)
          /\ registered' # registered => InitStep
          /\ last'.op \in {"tick", "get"}
              => /\ Len(session') = Len(session)
                 /\ registered' = registered]_vars

\* A tick has failed, a get-update before it having handed out a message,
\* and the connection still holds its session.
C20_Witness ==
    /\ last.op = "tick"
    /\ last.res = "LGMPCommunicationError"
    /\ session # <<>>
    /\ registered
    /\ delivered[last.chan] # <<>>

====
